---- MODULE Spec2Model ----
(***************************************************************************)
(* The APOD image cache of apod_desktop.py: the sqlite table apod_images,  *)
(* the payload files of the image cache directory, and the operations      *)
(* init_apod_cache, add_apod_to_cache, add_apod_to_db, the lookups,        *)
(* get_all_apod_titles and determine_apod_file_path, together with         *)
(* save_image_file of image_lib.py.                                        *)
(*                                                                         *)
(* Strings of the program (titles, URLs, paths) are sequences of           *)
(* one-character strings; byte strings are sequences of byte values.       *)
(***************************************************************************)
EXTENDS Integers, Sequences, FiniteSets, TLC

\* Number of calls (init_apod_cache, add_apod_to_cache, add_apod_to_db,
\* get_all_apod_titles, the lookups, main) of one behaviour.
MaxCalls == 3

(***************************************************************************)
(* Characters                                                              *)
(***************************************************************************)

\* Characters matched by the regex class \w.
WordChars ==
    {"a", "b", "c", "d", "e", "f", "g", "h", "i", "j", "k", "l", "m",
     "n", "o", "p", "q", "r", "s", "t", "u", "v", "w", "x", "y", "z",
     "A", "B", "C", "D", "E", "F", "G", "H", "I", "J", "K", "L", "M",
     "N", "O", "P", "Q", "R", "S", "T", "U", "V", "W", "X", "Y", "Z",
     "0", "1", "2", "3", "4", "5", "6", "7", "8", "9", "_"}

\* Characters removed by str.strip().
SpaceChars == {" "}

IsWord(ch) == ch \in WordChars

IsSpace(ch) == ch \in SpaceChars

(***************************************************************************)
(* determine_apod_file_path                                                *)
(***************************************************************************)

\* image_cache_dir, one path component; os.path.join adds the separator.
image_cache_dir == <<"images">>

\* os.path is ntpath: the script targets Windows (ctypes.windll in
\* image_lib.set_desktop_background_image).
PathSep == "\\"

\* Separators os.path.splitext looks for (sep and altsep).
SplitSeps == {"/", "\\"}

ExtSep == "."

RECURSIVE LStrip(_)
LStrip(s) ==
    IF s = <<>> THEN <<>>
    ELSE IF IsSpace(Head(s)) THEN LStrip(Tail(s))
    ELSE s

RECURSIVE RStrip(_)
RStrip(s) ==
    IF s = <<>> THEN <<>>
    ELSE IF IsSpace(s[Len(s)]) THEN RStrip(SubSeq(s, 1, Len(s) - 1))
    ELSE s

\* str.strip()
Strip(s) == RStrip(LStrip(s))

\* SubNonWord as it would be with the pattern \W: every non-word character
\* becomes an underscore of its own.
SubNonWordEach(s, inRun) ==
    [i \in 1..Len(s) |-> IF IsWord(s[i]) THEN s[i] ELSE "_"]

\* SubNonWord as the docstring words it ("characters other than letters,
\* numbers, and underscores are removed"): non-word characters are dropped.
SubNonWordRemove(s, inRun) == SelectSeq(s, IsWord)

\* re.sub(r'\W+', '_', s): every maximal run of non-word characters becomes
\* one underscore.  inRun: the previous character belonged to a run.
RECURSIVE SubNonWord(_, _)
SubNonWord(s, inRun) ==
    IF s = <<>> THEN <<>>
    ELSE IF IsWord(Head(s)) THEN <<Head(s)>> \o SubNonWord(Tail(s), FALSE)
    ELSE IF inRun THEN SubNonWord(Tail(s), TRUE)
    ELSE <<"_">> \o SubNonWord(Tail(s), TRUE)

\* str.rfind for a set of characters: the last index holding one, 0 if none.
RFind(s, chars) ==
    LET hits == {i \in 1..Len(s) : s[i] \in chars}
    IN  IF hits = {} THEN 0 ELSE CHOOSE i \in hits : \A k \in hits : k <= i

\* SplitExt as it would be without the separator test: the text from the
\* last dot of the whole string.
SplitExtAnyDot(p) ==
    LET dotIndex == RFind(p, {ExtSep})
    IN  IF dotIndex > 0 THEN SubSeq(p, dotIndex, Len(p)) ELSE <<>>

\* os.path.splitext(p)[1]: the text from the last dot of the last path
\* component, unless that component consists of leading dots up to it.
SplitExt(p) ==
    LET sepIndex == RFind(p, SplitSeps)
        dotIndex == RFind(p, {ExtSep})
    IN  IF dotIndex > sepIndex
           /\ \E k \in (sepIndex + 1)..(dotIndex - 1) : p[k] # ExtSep
        THEN SubSeq(p, dotIndex, Len(p))
        ELSE <<>>

determine_apod_file_path(image_title, image_url) ==
    image_cache_dir \o <<PathSep>>
        \o SubNonWord(Strip(image_title), FALSE) \o SplitExt(image_url)

(***************************************************************************)
(* hashlib.sha256(...).hexdigest() on the byte strings of the model        *)
(***************************************************************************)

\* Payloads the image download can deliver.
Payloads == {<<97>>, <<97, 98>>}

Sha256(bytes) ==
    CASE bytes = <<>> ->
           "e3b0c44298fc1c149afbf4c8996fb92427ae41e4649b934ca495991b7852b855"
      [] bytes = <<97>> ->
           "ca978112ca1bbdcafac231b39a23dc4da786eff8147c4e72b9807785afee48bb"
      [] bytes = <<97, 98>> ->
           "fb8e20fc2e4c3f248c60c39bd652f3c1347298bb977b8b4d5903b85055620603"

(***************************************************************************)
(* What the NASA API and the image download can answer                     *)
(***************************************************************************)

HttpOk == 200

HttpNotFound == 404

UrlJpgX == <<"h", ":", "/", "/", "n", ".", "g", "/", "x", ".", "j">>

UrlJpgS == <<"h", ":", "/", "/", "n", ".", "g", "/", "s", ".", "j">>

UrlNoExt == <<"h", ":", "/", "/", "n", ".", "g", "/", "t">>

\* response.json() of the APOD API.  A key the API leaves out of an answer
\* of that media type is the empty string here; the code never reads it.
ApodInfos ==
    { [title |-> <<" ", "a", " ", "b">>, explanation |-> "e1",
       media_type |-> "image", hdurl |-> UrlJpgX, thumbnail_url |-> <<>>],
      [title |-> <<"a", "#", "b">>, explanation |-> "e2",
       media_type |-> "image", hdurl |-> UrlJpgS, thumbnail_url |-> <<>>],
      [title |-> <<"c">>, explanation |-> "e3",
       media_type |-> "video", hdurl |-> <<>>, thumbnail_url |-> UrlNoExt],
      [title |-> <<"c">>, explanation |-> "e4",
       media_type |-> "other", hdurl |-> <<>>, thumbnail_url |-> <<>>] }

\* The HTTP answers to requests.get(APOD_API_URL, ...).
ApiResponses ==
    [status_code : {HttpOk}, json : ApodInfos]
        \cup {[status_code |-> HttpNotFound,
               json |-> CHOOSE i \in ApodInfos : i.media_type = "other"]}

\* The HTTP answers to requests.get(image_url).
ImageResponses ==
    [status_code : {HttpOk}, content : Payloads]
        \cup {[status_code |-> HttpNotFound, content |-> <<>>]}

\* apod_api.get_apod_info: the json of an ok answer, otherwise None.
ApiGetApodInfo(resp) ==
    [isNone |-> resp.status_code # HttpOk, value |-> resp.json]

\* image_lib.download_image: the content of an ok answer, otherwise None.
download_image(resp) ==
    [isNone |-> resp.status_code # HttpOk, value |-> resp.content]

(***************************************************************************)
(* image_lib.save_image_file                                               *)
(***************************************************************************)

\* How open(image_path, "wb") and file.write(image_data) can end: open
\* raises (nothing changes), write raises after `written` bytes reached the
\* truncated file, or all bytes are written.
WriteOutcomes(image_data) ==
    {[kind |-> "ok", written |-> Len(image_data)],
     [kind |-> "open_fail", written |-> 0]}
        \cup [kind : {"write_fail"}, written : 0..(Len(image_data) - 1)]

WriteFile(fs, path, data) ==
    {f \in fs : f.path # path} \cup {[path |-> path, data |-> data]}

\* The files after the call and the bool the function returns; every
\* exception is caught and turned into False.
save_image_file(fs, image_data, image_path, w) ==
    IF w.kind = "open_fail"
    THEN [files |-> fs, ok |-> FALSE]
    ELSE [files |-> WriteFile(fs, image_path, SubSeq(image_data, 1, w.written)),
          ok |-> w.kind = "ok"]

(***************************************************************************)
(* The apod_images table                                                   *)
(***************************************************************************)

MaxOf(S) == CHOOSE m \in S : \A k \in S : k <= m

\* NewRowId as it would be if the id were the number of rows in the table.
NewRowIdCount(rows) == IF rows = <<>> THEN 1 ELSE Len(rows)

\* The rowid sqlite gives a new row of a table with INTEGER PRIMARY KEY:
\* one more than the largest rowid in use, 1 in an empty table.
NewRowId(rows) ==
    IF rows = <<>> THEN 1
    ELSE MaxOf({rows[i].id : i \in 1..Len(rows)}) + 1

\* InsertRow as it would be with a UNIQUE sha256 column and INSERT OR IGNORE:
\* a row whose sha256 is present is not added.
InsertRowUnique(rows, title, explanation, file_path, sha256) ==
    IF \E i \in 1..Len(rows) : rows[i].sha256 = sha256
    THEN rows
    ELSE Append(rows, [id |-> NewRowId(rows), title |-> title,
                       explanation |-> explanation, file_path |-> file_path,
                       sha256 |-> sha256])

\* InsertRow as it would be with a UNIQUE sha256 column and INSERT OR
\* REPLACE: the new row takes the place of a row with the same sha256.
InsertRowReplace(rows, title, explanation, file_path, sha256) ==
    Append(SelectSeq(rows, LAMBDA row : row.sha256 # sha256),
           [id |-> NewRowId(rows), title |-> title,
            explanation |-> explanation, file_path |-> file_path,
            sha256 |-> sha256])

\* INSERT INTO apod_images (title, explanation, file_path, sha256): the
\* table has no UNIQUE column other than id, so the row is always added.
InsertRow(rows, title, explanation, file_path, sha256) ==
    Append(rows, [id |-> NewRowId(rows), title |-> title,
                  explanation |-> explanation, file_path |-> file_path,
                  sha256 |-> sha256])

\* LastRowId as it would be if the code read cur.rowcount instead.
LastRowIdRowCount(rows) == 1

\* cur.lastrowid after the INSERT.
LastRowId(rows) == rows[Len(rows)].id

\* get_apod_id_from_db: id of the first row with that sha256, else 0.
get_apod_id_from_db(rows, image_sha256) ==
    LET hits == {i \in 1..Len(rows) : rows[i].sha256 = image_sha256}
    IN  IF hits = {} THEN 0
        ELSE rows[CHOOSE i \in hits : \A k \in hits : i <= k].id

(***************************************************************************)
(* State                                                                   *)
(***************************************************************************)

VARIABLES
    dirExists,      \* the image cache directory exists
    dbFileExists,   \* image_cache.db exists in it
    tableExists,    \* the table apod_images exists in the database
    records,        \* the rows of apod_images, in rowid order
    files,          \* the payload files of the directory: [path, data]
    calls,          \* the calls made so far, with what each did and returned
    listing,        \* what the last get_all_apod_titles call answered
    race,           \* the two concurrent runs of the script: pc and locals
    resolved,       \* the last determine_apod_file_path call and its result
    wallpaper       \* the set_desktop_background_image call of the last main

vars == <<dirExists, dbFileExists, tableExists, records, files, calls,
          listing, race, resolved, wallpaper>>

\* The runs of the script that can overlap.
Runs == {1, 2}

NoRun ==
    [pc |-> "idle", title |-> <<>>, explanation |-> "", image_url |-> <<>>,
     image |-> <<>>, sha256 |-> "", found |-> 0, write |-> "none",
     ret |-> 0, error |-> ""]

Init ==
    /\ dirExists \in BOOLEAN
    /\ dbFileExists = FALSE
    /\ tableExists = FALSE
    /\ records = <<>>
    /\ files = {}
    /\ calls = <<>>
    /\ listing = [outcome |-> "none", error |-> "", titles |-> <<>>]
    /\ race = [r \in Runs |-> NoRun]
    /\ resolved = [called |-> FALSE, title |-> <<>>, url |-> <<>>,
                   path |-> <<>>]
    /\ wallpaper = [called |-> FALSE, path |-> <<>>, bmp_path |-> <<>>,
                    opened |-> FALSE]

\* A call that ended in an exception.
RaisedCall(op, title, image, sha256, error) ==
    [op |-> op, title |-> title, image |-> image, sha256 |-> sha256,
     file_path |-> <<>>, found |-> 0, steps |-> <<>>, write |-> "none",
     outcome |-> "raised", error |-> error, ret |-> 0]

(***************************************************************************)
(* init_apod_cache                                                         *)
(***************************************************************************)

\* The log entry of a call that has no title, image or path.
PlainCall(op, outcome, error) ==
    [op |-> op, title |-> <<>>, image |-> <<>>, sha256 |-> "",
     file_path |-> <<>>, found |-> 0, steps |-> <<>>, write |-> "none",
     outcome |-> outcome, error |-> error, ret |-> 0]

\* init_apod_cache as it would be with DROP TABLE IF EXISTS before a plain
\* CREATE TABLE: every call starts from an empty table.
init_apod_cache_Recreate ==
    /\ Len(calls) < MaxCalls
    /\ dirExists' = TRUE
    /\ dbFileExists' = TRUE
    /\ tableExists' = TRUE
    /\ records' = <<>>
    /\ calls' = Append(calls, PlainCall("init_apod_cache", "returned", ""))
    /\ UNCHANGED files

\* os.makedirs if the directory is absent, sqlite3.connect (creates the
\* database file), CREATE TABLE IF NOT EXISTS: rows and files are kept.
init_apod_cache ==
    /\ Len(calls) < MaxCalls
    /\ dirExists' = TRUE
    /\ dbFileExists' = TRUE
    /\ tableExists' = TRUE
    /\ calls' = Append(calls, PlainCall("init_apod_cache", "returned", ""))
    /\ UNCHANGED <<records, files>>

(***************************************************************************)
(* add_apod_to_db                                                          *)
(***************************************************************************)

\* add_apod_to_db as it would be with a UNIQUE sha256 column and an upsert
\* (ON CONFLICT DO UPDATE): a row with that sha256 is overwritten in place.
add_apod_to_db_Upsert(rows, title, explanation, file_path, sha256) ==
    LET hits == {i \in 1..Len(rows) : rows[i].sha256 = sha256}
        at == CHOOSE i \in hits : TRUE
        after == InsertRow(rows, title, explanation, file_path, sha256)
    IN  IF hits = {}
        THEN [records |-> after, apod_id |-> LastRowId(after)]
        ELSE [records |-> [rows EXCEPT ![at].title = title,
                                       ![at].explanation = explanation,
                                       ![at].file_path = file_path],
              apod_id |-> rows[at].id]

\* The rows after the call and the id it returns.
add_apod_to_db(rows, title, explanation, file_path, sha256) ==
    LET after == InsertRow(rows, title, explanation, file_path, sha256)
    IN  [records |-> after, apod_id |-> LastRowId(after)]

(***************************************************************************)
(* add_apod_to_cache, from the hash of the downloaded image on             *)
(***************************************************************************)

\* Lines 156-179: the lookup, the save on a miss, and the insert, which the
\* code runs after the if/else, on a hit as well as on a miss, and whatever
\* save_image_file returned.
CacheImage(rows, fs, apod_info, image_url, image_data, w) ==
    LET image_sha256 == Sha256(image_data)
        found == get_apod_id_from_db(rows, image_sha256)
        file_path == determine_apod_file_path(apod_info.title, image_url)
        saved == IF found # 0 THEN [files |-> fs, ok |-> FALSE]
                 ELSE save_image_file(fs, image_data, file_path, w)
        write == IF found # 0 THEN "none"
                 ELSE IF saved.ok THEN "write_ok" ELSE "write_fail"
        added == add_apod_to_db(rows, apod_info.title, apod_info.explanation,
                                file_path, image_sha256)
    IN  [records |-> added.records, files |-> saved.files,
         sha256 |-> image_sha256, file_path |-> file_path, found |-> found,
         write |-> write,
         steps |-> <<"lookup">>
                     \o (IF found # 0 THEN <<>> ELSE <<write>>)
                     \o <<"insert">>,
         ret |-> added.apod_id]

add_apod_to_cache(apiResp, imgResp, w) ==
    LET op == "add_apod_to_cache"
        apod_info == ApiGetApodInfo(apiResp)
        info == apod_info.value
        image_url == IF info.media_type = "image" THEN info.hdurl
                     ELSE info.thumbnail_url
        image == download_image(imgResp)
    IN  /\ Len(calls) < MaxCalls
        /\ IF apod_info.isNone
           THEN \* line 139: None is not subscriptable
                /\ calls' = Append(calls,
                       RaisedCall(op, <<>>, <<>>, "", "TypeError"))
                /\ UNCHANGED <<dirExists, dbFileExists, tableExists,
                               records, files>>
           ELSE IF info.media_type \notin {"image", "video"}
           THEN \* line 152: image_url was never assigned
                /\ calls' = Append(calls,
                       RaisedCall(op, info.title, <<>>, "",
                                  "UnboundLocalError"))
                /\ UNCHANGED <<dirExists, dbFileExists, tableExists,
                               records, files>>
           ELSE IF image.isNone
           THEN \* line 156: sha256 of None
                /\ calls' = Append(calls,
                       RaisedCall(op, info.title, <<>>, "", "TypeError"))
                /\ UNCHANGED <<dirExists, dbFileExists, tableExists,
                               records, files>>
           ELSE IF ~dirExists
           THEN \* line 215: the database file cannot be opened
                /\ calls' = Append(calls,
                       RaisedCall(op, info.title, image.value,
                                  Sha256(image.value), "OperationalError"))
                /\ UNCHANGED <<dirExists, dbFileExists, tableExists,
                               records, files>>
           ELSE IF ~tableExists
           THEN \* line 217: no such table; connect created the file
                /\ calls' = Append(calls,
                       RaisedCall(op, info.title, image.value,
                                  Sha256(image.value), "OperationalError"))
                /\ dbFileExists' = TRUE
                /\ UNCHANGED <<dirExists, tableExists, records, files>>
           ELSE LET r == CacheImage(records, files, info, image_url,
                                    image.value, w)
                IN  /\ records' = r.records
                    /\ files' = r.files
                    /\ calls' = Append(calls,
                           [op |-> op, title |-> info.title,
                            image |-> image.value, sha256 |-> r.sha256,
                            file_path |-> r.file_path, found |-> r.found,
                            steps |-> r.steps, write |-> r.write,
                            outcome |-> "returned", error |-> "",
                            ret |-> r.ret])
                    /\ UNCHANGED <<dirExists, dbFileExists, tableExists>>

(***************************************************************************)
(* add_apod_to_db called on its own                                        *)
(***************************************************************************)

AddApodToDbCall(title, explanation, file_path, sha256) ==
    LET op == "add_apod_to_db"
    IN  /\ Len(calls) < MaxCalls
        /\ IF ~dirExists
           THEN \* line 194: the database file cannot be opened
                /\ calls' = Append(calls,
                       RaisedCall(op, title, <<>>, sha256,
                                  "OperationalError"))
                /\ UNCHANGED <<dirExists, dbFileExists, tableExists,
                               records, files>>
           ELSE IF ~tableExists
           THEN \* line 196: no such table; connect created the file
                /\ calls' = Append(calls,
                       RaisedCall(op, title, <<>>, sha256,
                                  "OperationalError"))
                /\ dbFileExists' = TRUE
                /\ UNCHANGED <<dirExists, tableExists, records, files>>
           ELSE LET r == add_apod_to_db(records, title, explanation,
                                        file_path, sha256)
                IN  /\ records' = r.records
                    /\ calls' = Append(calls,
                           [op |-> op, title |-> title, image |-> <<>>,
                            sha256 |-> sha256, file_path |-> file_path,
                            found |-> get_apod_id_from_db(records, sha256),
                            steps |-> <<"insert">>, write |-> "none",
                            outcome |-> "returned", error |-> "",
                            ret |-> r.apod_id])
                    /\ UNCHANGED <<dirExists, dbFileExists, tableExists,
                                   files>>

(***************************************************************************)
(* get_all_apod_titles                                                     *)
(***************************************************************************)

\* The table init_apod_cache creates (line 106).
ImagesTable == "apod_images"

\* The table get_all_apod_titles selects from (line 294).
TitlesTable == "apod_cache"

\* The tables of the database: only init_apod_cache creates one.
Tables == IF tableExists THEN {ImagesTable} ELSE {}

\* SELECT title FROM <table>: the titles in rowid order, or
\* sqlite3.OperationalError when there is no such table.
SelectTitles(table) ==
    IF table \notin Tables
    THEN [outcome |-> "raised", error |-> "OperationalError",
          titles |-> <<>>]
    ELSE [outcome |-> "returned", error |-> "",
          titles |-> [i \in 1..Len(records) |-> records[i].title]]

get_all_apod_titles ==
    LET op == "get_all_apod_titles"
    IN  /\ Len(calls) < MaxCalls
        /\ IF ~dirExists
           THEN \* line 292: the database file cannot be opened
                /\ listing' = [outcome |-> "raised",
                               error |-> "OperationalError",
                               titles |-> <<>>]
                /\ UNCHANGED dbFileExists
           ELSE /\ listing' = SelectTitles(TitlesTable)
                /\ dbFileExists' = TRUE
        /\ calls' = Append(calls,
                           PlainCall(op, listing'.outcome, listing'.error))
        /\ UNCHANGED <<dirExists, tableExists, records, files>>

(***************************************************************************)
(* determine_apod_file_path called on its own                              *)
(***************************************************************************)

MaxTitleLen == 3

MaxUrlLen == 3

\* Characters of the titles tried: a letter, the underscore, a space and a
\* punctuation mark.
TitleAlphabet == {"a", "_", " ", "#"}

\* Characters of the URLs tried: a letter, the dot and the two separators.
UrlAlphabet == {"x", ".", "/", "\\"}

SeqsUpTo(S, n) == UNION {[1..k -> S] : k \in 0..n}

\* The title and the URL of the docstring's example (lines 239-240).
NgcTitle ==
    <<" ", "N", "G", "C", " ", "#", "3", "5", "2", "1", ":", " ",
      "G", "a", "l", "a", "x", "y", " ", "i", "n", " ", "a", " ",
      "B", "u", "b", "b", "l", "e", " ">>

NgcUrl ==
    <<"h", "t", "t", "p", "s", ":", "/", "/", "a", "p", "o", "d",
      ".", "n", "a", "s", "a", ".", "g", "o", "v", "/", "a", "p",
      "o", "d", "/", "i", "m", "a", "g", "e", "/", "2", "2", "0",
      "5", "/", "N", "G", "C", "3", "5", "2", "1", "L", "R", "G",
      "B", "H", "a", "A", "P", "O", "D", "-", "2", "0", ".", "j",
      "p", "g">>

PathTitles == SeqsUpTo(TitleAlphabet, MaxTitleLen) \cup {NgcTitle}

PathUrls == SeqsUpTo(UrlAlphabet, MaxUrlLen) \cup {NgcUrl}

\* One call per behaviour: the function reads and keeps no state.
DeterminePathCall(image_title, image_url) ==
    /\ ~resolved.called
    /\ resolved' = [called |-> TRUE, title |-> image_title,
                    url |-> image_url,
                    path |-> determine_apod_file_path(image_title,
                                                      image_url)]
    /\ UNCHANGED <<dirExists, dbFileExists, tableExists, records, files,
                   calls, listing, race, wallpaper>>

NextPath ==
    \E image_title \in PathTitles, image_url \in PathUrls :
        DeterminePathCall(image_title, image_url)

SpecPath == Init /\ [][NextPath]_vars

(***************************************************************************)
(* The lookups called on their own                                         *)
(***************************************************************************)

\* get_apod_info (lines 257-282): the dictionary of the row with that id,
\* or the empty dictionary.
get_apod_info(rows, image_id) ==
    LET hits == {i \in 1..Len(rows) : rows[i].id = image_id}
        row == rows[CHOOSE i \in hits : TRUE]
    IN  IF hits = {}
        THEN [isEmpty |-> TRUE, title |-> <<>>, explanation |-> "",
              file_path |-> <<>>]
        ELSE [isEmpty |-> FALSE, title |-> row.title,
              explanation |-> row.explanation, file_path |-> row.file_path]

\* A lookup raises when the database cannot be opened or has no table; the
\* connect of a failed query has created the database file.
LookupRaises(op) ==
    /\ ~tableExists
    /\ calls' = Append(calls, PlainCall(op, "raised", "OperationalError"))
    /\ dbFileExists' = (dbFileExists \/ dirExists)
    /\ UNCHANGED <<dirExists, tableExists, records, files>>

GetApodIdFromDbCall(image_sha256) ==
    LET op == "get_apod_id_from_db"
    IN  /\ Len(calls) < MaxCalls
        /\ \/ LookupRaises(op)
           \/ /\ tableExists
              /\ calls' = Append(calls,
                     [PlainCall(op, "returned", "") EXCEPT
                         !.sha256 = image_sha256,
                         !.found = get_apod_id_from_db(records, image_sha256),
                         !.ret = get_apod_id_from_db(records, image_sha256)])
              /\ UNCHANGED <<dirExists, dbFileExists, tableExists, records,
                             files>>

GetApodInfoCall(image_id) ==
    LET op == "get_apod_info"
        info == get_apod_info(records, image_id)
    IN  /\ Len(calls) < MaxCalls
        /\ \/ LookupRaises(op)
           \/ /\ tableExists
              /\ calls' = Append(calls,
                     [PlainCall(op, "returned", "") EXCEPT
                         !.title = info.title,
                         !.file_path = info.file_path,
                         !.found = IF info.isEmpty THEN 0 ELSE image_id,
                         !.ret = image_id])
              /\ UNCHANGED <<dirExists, dbFileExists, tableExists, records,
                             files>>

(***************************************************************************)
(* Specifications                                                          *)
(***************************************************************************)

\* The cache as apod_desktop.py drives it.
Next ==
    \/ init_apod_cache /\ UNCHANGED <<listing, race, resolved, wallpaper>>
    \/ \E apiResp \in ApiResponses, imgResp \in ImageResponses :
         \E w \in WriteOutcomes(imgResp.content) :
            /\ add_apod_to_cache(apiResp, imgResp, w)
            /\ UNCHANGED <<listing, race, resolved, wallpaper>>

Spec == Init /\ [][Next]_vars

\* The store alone: init_apod_cache, add_apod_to_db with any arguments, and
\* get_all_apod_titles.
NextDb ==
    \/ init_apod_cache /\ UNCHANGED <<listing, race, resolved, wallpaper>>
    \/ \E info \in ApodInfos, url \in {UrlJpgX, UrlNoExt}, data \in Payloads :
         /\ AddApodToDbCall(info.title, info.explanation,
                            determine_apod_file_path(info.title, url),
                            Sha256(data))
         /\ UNCHANGED <<listing, race, resolved, wallpaper>>
    \/ get_all_apod_titles /\ UNCHANGED <<race, resolved, wallpaper>>

SpecDb == Init /\ [][NextDb]_vars

(***************************************************************************)
(* Two runs of the script at once: main() of each run calls                *)
(* init_apod_cache and add_apod_to_cache; the steps of a run are its       *)
(* database transactions and its file write, and steps of the two runs     *)
(* interleave.                                                             *)
(***************************************************************************)

\* main, line 43.
RunInit(r) ==
    /\ race[r].pc = "idle"
    /\ dirExists' = TRUE
    /\ dbFileExists' = TRUE
    /\ tableExists' = TRUE
    /\ race' = [race EXCEPT ![r].pc = "fetch"]
    /\ UNCHANGED <<records, files, calls, listing, resolved, wallpaper>>

\* add_apod_to_cache, lines 137-157: the two downloads and the hash.
RunFetch(r, apiResp, imgResp) ==
    LET apod_info == ApiGetApodInfo(apiResp)
        info == apod_info.value
        image_url == IF info.media_type = "image" THEN info.hdurl
                     ELSE info.thumbnail_url
        image == download_image(imgResp)
    IN  /\ race[r].pc = "fetch"
        /\ race' =
             [race EXCEPT ![r] =
                IF apod_info.isNone
                THEN [@ EXCEPT !.pc = "done", !.error = "TypeError"]
                ELSE IF info.media_type \notin {"image", "video"}
                THEN [@ EXCEPT !.pc = "done", !.title = info.title,
                               !.error = "UnboundLocalError"]
                ELSE IF image.isNone
                THEN [@ EXCEPT !.pc = "done", !.title = info.title,
                               !.error = "TypeError"]
                ELSE [@ EXCEPT !.pc = "lookup", !.title = info.title,
                               !.explanation = info.explanation,
                               !.image_url = image_url,
                               !.image = image.value,
                               !.sha256 = Sha256(image.value)]]
        /\ UNCHANGED <<dirExists, dbFileExists, tableExists, records, files,
                       calls, listing, resolved, wallpaper>>

\* Lines 158-162: get_apod_id_from_db and the branch on its result.
RunLookup(r) ==
    LET apod_id == get_apod_id_from_db(records, race[r].sha256)
    IN  /\ race[r].pc = "lookup"
        /\ race' = [race EXCEPT ![r].found = apod_id,
                                ![r].pc = IF apod_id # 0 THEN "insert"
                                          ELSE "save"]
        /\ UNCHANGED <<dirExists, dbFileExists, tableExists, records, files,
                       calls, listing, resolved, wallpaper>>

\* Lines 167-171: save_image_file on a miss, its result dropped.
RunSave(r, w) ==
    LET file_path == determine_apod_file_path(race[r].title,
                                              race[r].image_url)
        saved == save_image_file(files, race[r].image, file_path, w)
    IN  /\ race[r].pc = "save"
        /\ files' = saved.files
        /\ race' = [race EXCEPT ![r].write = IF saved.ok THEN "write_ok"
                                             ELSE "write_fail",
                                ![r].pc = "insert"]
        /\ UNCHANGED <<dirExists, dbFileExists, tableExists, records, calls,
                       listing, resolved, wallpaper>>

\* Lines 175-179: add_apod_to_db and the return.
RunInsert(r) ==
    LET file_path == determine_apod_file_path(race[r].title,
                                              race[r].image_url)
        added == add_apod_to_db(records, race[r].title, race[r].explanation,
                                file_path, race[r].sha256)
    IN  /\ race[r].pc = "insert"
        /\ records' = added.records
        /\ race' = [race EXCEPT ![r].ret = added.apod_id, ![r].pc = "done"]
        /\ UNCHANGED <<dirExists, dbFileExists, tableExists, files, calls,
                       listing, resolved, wallpaper>>

NextRace ==
    \E r \in Runs :
        \/ RunInit(r)
        \/ \E apiResp \in ApiResponses, imgResp \in ImageResponses :
             RunFetch(r, apiResp, imgResp)
        \/ RunLookup(r)
        \/ \E w \in WriteOutcomes(race[r].image) : RunSave(r, w)
        \/ RunInsert(r)

SpecRace == Init /\ [][NextRace]_vars

\* Every operation of the cache, in any order.
NextStore ==
    \/ init_apod_cache /\ UNCHANGED <<listing, race, resolved, wallpaper>>
    \/ \E apiResp \in ApiResponses, imgResp \in ImageResponses :
         \E w \in WriteOutcomes(imgResp.content) :
            /\ add_apod_to_cache(apiResp, imgResp, w)
            /\ UNCHANGED <<listing, race, resolved, wallpaper>>
    \/ \E info \in ApodInfos, data \in Payloads :
         /\ AddApodToDbCall(info.title, info.explanation,
                            determine_apod_file_path(info.title, UrlJpgX),
                            Sha256(data))
         /\ UNCHANGED <<listing, race, resolved, wallpaper>>
    \/ get_all_apod_titles /\ UNCHANGED <<race, resolved, wallpaper>>
    \/ \E data \in Payloads :
         /\ GetApodIdFromDbCall(Sha256(data))
         /\ UNCHANGED <<listing, race, resolved, wallpaper>>
    \/ \E image_id \in 0..MaxCalls :
         /\ GetApodInfoCall(image_id)
         /\ UNCHANGED <<listing, race, resolved, wallpaper>>

SpecStore == Init /\ [][NextStore]_vars

(***************************************************************************)
(* main: one run of the script                                             *)
(***************************************************************************)

NoWallpaper ==
    [called |-> FALSE, path |-> <<>>, bmp_path |-> <<>>, opened |-> FALSE]

BmpExt == <<".", "b", "m", "p">>

\* image_lib.set_desktop_background_image (lines 61-83): the path it is
\* given, the path of the BMP copy it derives from it, and whether there is
\* a file for Image.open to open.  Decoding the image and the Windows call
\* are outside the cache.
set_desktop_background_image(fs, image_path) ==
    [called |-> TRUE, path |-> image_path,
     bmp_path |-> SubSeq(image_path, 1,
                         Len(image_path) - Len(SplitExt(image_path)))
                    \o BmpExt,
     opened |-> image_path \in {f.path : f \in fs}]

\* get_apod_date (lines 70-89) rejects the command line: sys.exit(1) before
\* anything else runs.
MainBadDate ==
    /\ Len(calls) < MaxCalls
    /\ calls' = Append(calls, PlainCall("main", "exited", "SystemExit"))
    /\ wallpaper' = NoWallpaper
    /\ UNCHANGED <<dirExists, dbFileExists, tableExists, records, files,
                   listing, race, resolved>>

\* main (lines 37-53) with a valid date: init_apod_cache, add_apod_to_cache,
\* get_apod_info, and set_desktop_background_image when the id is not zero.
\* An exception of add_apod_to_cache ends the run after init_apod_cache.
Main(apiResp, imgResp, w) ==
    LET op == "main"
        apod_info == ApiGetApodInfo(apiResp)
        info == apod_info.value
        image_url == IF info.media_type = "image" THEN info.hdurl
                     ELSE info.thumbnail_url
        image == download_image(imgResp)
    IN  /\ Len(calls) < MaxCalls
        /\ dirExists' = TRUE
        /\ dbFileExists' = TRUE
        /\ tableExists' = TRUE
        /\ UNCHANGED <<listing, race, resolved>>
        /\ IF apod_info.isNone
           THEN /\ calls' = Append(calls,
                       RaisedCall(op, <<>>, <<>>, "", "TypeError"))
                /\ wallpaper' = NoWallpaper
                /\ UNCHANGED <<records, files>>
           ELSE IF info.media_type \notin {"image", "video"}
           THEN /\ calls' = Append(calls,
                       RaisedCall(op, info.title, <<>>, "",
                                  "UnboundLocalError"))
                /\ wallpaper' = NoWallpaper
                /\ UNCHANGED <<records, files>>
           ELSE IF image.isNone
           THEN /\ calls' = Append(calls,
                       RaisedCall(op, info.title, <<>>, "", "TypeError"))
                /\ wallpaper' = NoWallpaper
                /\ UNCHANGED <<records, files>>
           ELSE LET r == CacheImage(records, files, info, image_url,
                                    image.value, w)
                    shown == get_apod_info(r.records, r.ret)
                IN  /\ records' = r.records
                    /\ files' = r.files
                    /\ calls' = Append(calls,
                           [op |-> op, title |-> info.title,
                            image |-> image.value, sha256 |-> r.sha256,
                            file_path |-> r.file_path, found |-> r.found,
                            steps |-> r.steps, write |-> r.write,
                            outcome |-> IF r.ret # 0 /\ shown.isEmpty
                                        THEN "raised" ELSE "returned",
                            error |-> IF r.ret # 0 /\ shown.isEmpty
                                      THEN "KeyError" ELSE "",
                            ret |-> r.ret])
                    /\ wallpaper' =
                         IF r.ret # 0 /\ ~shown.isEmpty
                         THEN set_desktop_background_image(r.files,
                                                           shown.file_path)
                         ELSE NoWallpaper

NextMain ==
    \/ MainBadDate
    \/ \E apiResp \in ApiResponses, imgResp \in ImageResponses :
         \E w \in WriteOutcomes(imgResp.content) :
            Main(apiResp, imgResp, w)

SpecMain == Init /\ [][NextMain]_vars

(***************************************************************************)
(* Properties                                                              *)
(***************************************************************************)

\* A call of add_apod_to_cache that got as far as the cache and returned.
Ingested(c) == c.op = "add_apod_to_cache" /\ c.outcome = "returned"

\* The call a step has just added to the log.
NewCall == calls'[Len(calls')]

IngestStep == Len(calls') = Len(calls) + 1 /\ Ingested(NewCall)

InsertStep ==
    /\ Len(calls') = Len(calls) + 1
    /\ NewCall.op = "add_apod_to_db"
    /\ tableExists

RecordIds(rows) == {rows[i].id : i \in 1..Len(rows)}

RowsWithId(rows, id) == {i \in 1..Len(rows) : rows[i].id = id}

FilePaths(fs) == {f.path : f \in fs}

\* C1: two successive add_apod_to_cache calls that receive byte-identical
\* payloads return the same record id, and after both calls exactly one
\* payload file holds content with that fingerprint.
C1_IdempotentIngestion ==
    LET n == Len(calls)
    IN  (/\ n >= 2
         /\ Ingested(calls[n - 1])
         /\ Ingested(calls[n])
         /\ calls[n - 1].image = calls[n].image)
        => /\ calls[n - 1].ret = calls[n].ret
           /\ Cardinality({f \in files :
                               Sha256(f.data) = calls[n].sha256}) = 1

\* C2: in every state reached by init_apod_cache and add_apod_to_cache
\* calls, no two rows of apod_images have the same sha256.
C2_FingerprintUnique ==
    \A i, j \in 1..Len(records) :
        i # j => records[i].sha256 # records[j].sha256

\* C3: an add_apod_to_cache call whose lookup finds a row for the payload's
\* fingerprint returns that row's id and leaves the rows and the payload
\* files as they were.
C3_HitLeavesCacheUnchanged ==
    [][(IngestStep /\ NewCall.found # 0)
          => /\ NewCall.ret = NewCall.found
             /\ records' = records
             /\ files' = files]_vars

\* C4: when save_image_file fails in an add_apod_to_cache call for content
\* that had no row, a lookup of that content's fingerprint after the call
\* still finds nothing.
C4_NoRecordAfterFailedWrite ==
    LET n == Len(calls)
    IN  (n >= 1 /\ Ingested(calls[n]) /\ calls[n].write = "write_fail")
        => get_apod_id_from_db(records, calls[n].sha256) = 0

\* C5: an add_apod_to_cache call whose payload write failed never ends as a
\* success returning a non-zero record id.
C5_WriteFailureSurfaced ==
    \A i \in 1..Len(calls) :
        calls[i].write = "write_fail"
            => (calls[i].outcome = "raised" \/ calls[i].ret = 0)

C7_RecordFilePairing ==
    /\ \A i \in 1..Len(records) : records[i].file_path \in FilePaths(files)
    /\ \A f \in files :
          \E i \in 1..Len(records) : records[i].file_path = f.path

\* C8: no two distinct rows have the same file_path.
C8_FilePathUnique ==
    \A i, j \in 1..Len(records) :
        i # j => records[i].file_path # records[j].file_path

\* C9: within an add_apod_to_cache call the lookup comes first, and the
\* insert is attempted only after the payload write of that call succeeded,
\* never after a hit and never after a failed write.
C9_IngestOrdering ==
    \A i \in 1..Len(calls) :
        Ingested(calls[i])
            => LET steps == calls[i].steps
               IN  /\ steps[1] = "lookup"
                   /\ \A k \in 2..Len(steps) : steps[k] # "lookup"
                   /\ \A k \in 1..Len(steps) :
                         steps[k] = "insert"
                             => k > 1 /\ steps[k - 1] = "write_ok"

\* C10: two add_apod_to_cache calls given different byte sequences return
\* different record ids, and the rows with those ids carry the two different
\* fingerprints of the two contents, whatever the titles.
C10_DistinctContentDistinctRecords ==
    \A i, j \in 1..Len(calls) :
        (/\ Ingested(calls[i])
         /\ Ingested(calls[j])
         /\ calls[i].image # calls[j].image)
        => /\ calls[i].ret # calls[j].ret
           /\ \E a \in RowsWithId(records, calls[i].ret),
                 b \in RowsWithId(records, calls[j].ret) :
                 /\ records[a].sha256 = Sha256(calls[i].image)
                 /\ records[b].sha256 = Sha256(calls[j].image)
                 /\ records[a].sha256 # records[b].sha256

\* Two different contents were ingested under one title, in either order.
C10_Witness ==
    \E i, j \in 1..Len(calls) :
        /\ i < j
        /\ Ingested(calls[i])
        /\ Ingested(calls[j])
        /\ calls[i].title = calls[j].title
        /\ calls[i].image = <<97, 98>>
        /\ calls[j].image = <<97>>

\* C11: every add_apod_to_db returns an id strictly greater than every id
\* assigned before it, the id of the row it added; ids stay pairwise
\* different and no existing row's id changes.
C11_IdsStrictlyIncreasing ==
    [][InsertStep
          => /\ \A id \in RecordIds(records) : NewCall.ret > id
             /\ records'[Len(records')].id = NewCall.ret
             /\ \A i \in 1..Len(records) : records'[i].id = records[i].id
             /\ \A i, j \in 1..Len(records') :
                   i # j => records'[i].id # records'[j].id]_vars

\* Two add_apod_to_db calls have returned, the second into a non-empty table.
C11_Witness ==
    \E i, j \in 1..Len(calls) :
        /\ i < j
        /\ calls[i].op = "add_apod_to_db" /\ calls[i].outcome = "returned"
        /\ calls[j].op = "add_apod_to_db" /\ calls[j].outcome = "returned"
        /\ calls[j].ret > calls[i].ret
        /\ Len(records) >= 2

\* Both runs have finished add_apod_to_cache for the same content, and both
\* missed the lookup before either inserted.
BothMissed ==
    /\ \A r \in Runs : race[r].pc = "done" /\ race[r].error = ""
    /\ race[1].sha256 = race[2].sha256
    /\ \A r \in Runs : race[r].found = 0

RowsWithSha(rows, sha256) == {i \in 1..Len(rows) : rows[i].sha256 = sha256}

Count(seq, x) == Cardinality({i \in 1..Len(seq) : seq[i] = x})

\* C13: on the initialized store get_all_apod_titles raises no error and
\* returns the titles of all rows, one entry per row, in some order.
C13_TitleListing ==
    LET n == Len(calls)
    IN  (n >= 1 /\ calls[n].op = "get_all_apod_titles" /\ tableExists)
        => /\ listing.outcome = "returned"
           /\ Len(listing.titles) = Len(records)
           /\ \A i \in 1..Len(records) :
                 Count(listing.titles, records[i].title)
                     = Count([k \in 1..Len(records) |-> records[k].title],
                             records[i].title)

\* C14: add_apod_to_cache returns 0, without raising, when it gets no image:
\* apod_api.get_apod_info returned None or image_lib.download_image returned
\* None.
C14_UnsuccessfulReturnsZero ==
    \A i \in 1..Len(calls) :
        (calls[i].op = "add_apod_to_cache" /\ calls[i].image = <<>>)
            => (calls[i].outcome = "returned" /\ calls[i].ret = 0)

InitStep ==
    /\ Len(calls') = Len(calls) + 1
    /\ NewCall.op = "init_apod_cache"

\* C15: init_apod_cache, at any point of a sequence of ingests, leaves every
\* row and payload file as it was and ends with the directory, the database
\* and the table present, so a second call changes nothing the first set up.
C15_InitIdempotent ==
    [][InitStep
          => /\ records' = records
             /\ files' = files
             /\ dirExists' /\ dbFileExists' /\ tableExists']_vars

\* init_apod_cache was called a second time, on a cache that held a row and
\* still holds it.
C15_Witness ==
    \E i, k, j \in 1..Len(calls) :
        /\ i < k /\ k < j
        /\ calls[i].op = "init_apod_cache"
        /\ Ingested(calls[k])
        /\ calls[j].op = "init_apod_cache"
        /\ Len(records) >= 1

MinOf(S) == CHOOSE m \in S : \A k \in S : m <= k

\* The title without its leading and trailing whitespace.
RefTrim(t) ==
    LET keep == {i \in 1..Len(t) : ~IsSpace(t[i])}
    IN  IF keep = {} THEN <<>> ELSE SubSeq(t, MinOf(keep), MaxOf(keep))

\* What position i of t contributes when every maximal run of characters
\* other than letters, digits and underscore becomes one underscore.
RefPiece(t, i) ==
    IF IsWord(t[i]) THEN <<t[i]>>
    ELSE IF i = 1 \/ IsWord(t[i - 1]) THEN <<"_">>
    ELSE <<>>

RECURSIVE RefCollapse(_, _)
RefCollapse(t, n) ==
    IF n = 0 THEN <<>> ELSE RefCollapse(t, n - 1) \o RefPiece(t, n)

RefStem(title) == RefCollapse(RefTrim(title), Len(RefTrim(title)))

NgcFileName ==
    <<"N", "G", "C", "_", "3", "5", "2", "1", "_", "G", "a", "l",
      "a", "x", "y", "_", "i", "n", "_", "a", "_", "B", "u", "b",
      "b", "l", "e", ".", "j", "p", "g">>

NoWordChar(t) == \A i \in 1..Len(t) : ~IsWord(t[i])

FromLastDot(comp) ==
    LET dots == {k \in 1..Len(comp) : comp[k] = "."}
    IN  IF dots = {} THEN <<>> ELSE SubSeq(comp, MaxOf(dots), Len(comp))

\* The part of a locator after the last of the given separators.
AfterLast(url, seps) ==
    LET at == {k \in 1..Len(url) : url[k] \in seps}
    IN  IF at = {} THEN url ELSE SubSeq(url, MaxOf(at) + 1, Len(url))

\* C18 as stated: the suffix is the text from the last '.' of the part of
\* the URL after its final '/', the dot included, and is empty when that
\* part has no '.'.
C18_ExtensionOfPathSegment ==
    resolved.called
        => resolved.path = image_cache_dir \o <<PathSep>>
                             \o RefStem(resolved.title)
                             \o FromLastDot(AfterLast(resolved.url, {"/"}))

\* The text from the last dot of a component, unless only dots come before
\* that dot in the component.
FromLastDotAfterName(comp) ==
    LET ext == FromLastDot(comp)
        stemLen == Len(comp) - Len(ext)
    IN  IF \E k \in 1..stemLen : comp[k] # "." THEN ext ELSE <<>>

\* C18 amended: the suffix is the text from the last '.' of the URL's last
\* path component (the part after the final '/' or '\'), the dot included,
\* provided a character other than '.' comes before that dot in the
\* component; otherwise it is empty.
C18_ExtensionOfLastComponent ==
    resolved.called
        => resolved.path =
              image_cache_dir \o <<PathSep>>
                \o RefStem(resolved.title)
                \o FromLastDotAfterName(AfterLast(resolved.url, {"/", "\\"}))

\* A URL whose last component is a dot followed by a name.
C18_Witness ==
    /\ resolved.called
    /\ resolved.url = <<"/", ".", "x">>
    /\ resolved.path = image_cache_dir \o <<PathSep>>
                         \o RefStem(resolved.title)

\* C19: no operation deletes a row or changes the id, title, explanation,
\* file_path or sha256 of an existing row: across every step the rows before
\* it are an unchanged prefix of the rows after it.
C19_AppendOnly ==
    [][/\ Len(records') >= Len(records)
       /\ SubSeq(records', 1, Len(records)) = records]_vars

\* A row added by add_apod_to_cache is there after a later add_apod_to_db
\* with the same fingerprint.
C19_Witness ==
    \E i, j \in 1..Len(calls) :
        /\ i < j
        /\ Ingested(calls[i])
        /\ calls[j].op = "add_apod_to_db"
        /\ calls[j].outcome = "returned"
        /\ calls[j].sha256 = calls[i].sha256
        /\ Len(records) >= 2

\* C20: for every row, the file at the row's file_path exists and its bytes
\* hash to the row's sha256.
C20_PayloadIntegrity ==
    \A i \in 1..Len(records) :
        \E f \in files :
            /\ f.path = records[i].file_path
            /\ Sha256(f.data) = records[i].sha256

\* C21: whenever main calls set_desktop_background_image, the path it passes
\* is the file_path of the row add_apod_to_cache returned, and a payload file
\* holding the image bytes just fetched exists at that path.
C21_WallpaperTarget ==
    LET n == Len(calls)
    IN  (n >= 1 /\ calls[n].op = "main" /\ wallpaper.called)
        => /\ \E i \in RowsWithId(records, calls[n].ret) :
                 records[i].file_path = wallpaper.path
           /\ \E f \in files :
                 /\ f.path = wallpaper.path
                 /\ f.data = calls[n].image

====
